---- MODULE Spec2Model ----
(***************************************************************************)
(* Model of the table-extraction pipeline of pdf_to_excel.py: the table    *)
(* geometry reconstruction inside process_single_page_ocr, the parallel    *)
(* OCR scheduler extract_tables_with_ocr, and the orchestration in         *)
(* convert.                                                                *)
(*                                                                         *)
(* Python strings are modelled as sequences of one-character strings, so   *)
(* that strip, split, join and int are computed and not assumed.  Python's *)
(* None is the empty sequence <<>> of an option, a value v is <<v>>.       *)
(***************************************************************************)
EXTENDS Integers, Sequences, FiniteSets, TLC

VARIABLES
    regions,    \* ocr_results of one page: the text regions the OCR adapter returned
    grid,       \* option: the table_data the reconstruction accepted, or <<>> (None)
    rpc,        \* position of the reconstruction: "input" | "done" | "off"
    OCR_AVAILABLE,  \* the module flag set by the import of rapidocr
    num_pages,      \* len(doc), len(pdf.pages): the pages of the document
    opc,            \* position of extract_tables_with_ocr:
                    \*   "idle" | "called" | "running" | "returned" | "raised"
    process_args,   \* the page_num of each (pdf_path, page_num), in order
    cpus,           \* multiprocessing.cpu_count() as line 175 read it, 0 before
    max_workers,    \* the size of the pool
    futures,        \* per task: st "queued" | "running" | "done", res the
                    \*   worker's return value, exc whether it raised instead,
                    \*   caught whether the worker's own handler ran
    overtaken,      \* history: some task was done before a task submitted earlier
    ocr_tables,     \* the list extract_tables_with_ocr returns
    pc,             \* position of convert: "start" | "open" | "parse" | "structural" |
                    \*   "fallback" | "reopen" | "ocr" | "check" | "write" | "done" | "off"
    pages,          \* the page selector of the request
    use_ocr,        \* whether the request opted into OCR
    pages_to_process,   \* the page indices resolved from the selector
    next_page,      \* the place in pages_to_process the structural loop is at
    tables,         \* the tables of the request: [page, data, source]
    sheets,         \* the sheets written: <<page, number>> for Page<p>_Table<i>
    output_dir,     \* whether os.makedirs created the output directory
    opens,          \* the times pdfplumber.open was called on the document
    result          \* the dict convert returns

reconVars == <<regions, grid, rpc>>
ocrVars == <<OCR_AVAILABLE, num_pages, opc, process_args, cpus, max_workers, futures, overtaken, ocr_tables>>
convVars == <<pc, pages, use_ocr, pages_to_process, next_page, tables, sheets, output_dir, opens, result>>
vars == <<reconVars, ocrVars, convVars>>

-----------------------------------------------------------------------------
(* Tuning numbers of the reconstruction. *)

BandHeight == 25
ColumnGap == 80
CellTolerance == 40
WorkerCap == 4

(* Bounds of the model. *)

MaxRegions == 3
MaxRows == 2
MaxCols == 2
MaxPages == 3
MaxCpu == 5
MaxSelLen == 3
MaxPageTables == 1
MaxBatch == 5

-----------------------------------------------------------------------------
(* Strings. *)

SPACE == " "

RECURSIVE LStrip(_)
LStrip(s) ==
    IF s # <<>> /\ Head(s) = SPACE THEN LStrip(Tail(s)) ELSE s

RECURSIVE RStrip(_)
RStrip(s) ==
    IF s # <<>> /\ s[Len(s)] = SPACE THEN RStrip(SubSeq(s, 1, Len(s) - 1)) ELSE s

\* str.strip() for the blank the model's alphabet has
Strip(s) == RStrip(LStrip(s))

\* str.split(sep): the pieces between the separators, empty pieces kept
RECURSIVE SplitFrom(_, _, _, _, _)
SplitFrom(s, sep, k, piece, pieces) ==
    IF k > Len(s) THEN Append(pieces, piece)
    ELSE IF s[k] = sep THEN SplitFrom(s, sep, k + 1, <<>>, Append(pieces, piece))
         ELSE SplitFrom(s, sep, k + 1, Append(piece, s[k]), pieces)

Split(s, sep) == SplitFrom(s, sep, 1, <<>>, <<>>)

-----------------------------------------------------------------------------
(* Table geometry reconstruction (process_single_page_ocr, lines 57-145).  *)
(* A region is [text, left, top]: the recognised text, and left_x and      *)
(* top_y as lines 79-80 take them from the box.                            *)

\* line 74: the region is skipped
IsBlank(text) == text = <<>> \/ Strip(text) = <<>>

\* line 85: int(top_y) // 25 * 25
LineKey(top_y) == (top_y \div BandHeight) * BandHeight

\* lines 67-91: the dict lines, key -> words in the order the regions come
RECURSIVE GroupFrom(_, _, _)
GroupFrom(ocr_results, k, lines) ==
    IF k > Len(ocr_results) THEN lines
    ELSE LET item == ocr_results[k]
             line_key == LineKey(item.top)
             old == IF line_key \in DOMAIN lines THEN lines[line_key] ELSE <<>>
             word == [text |-> Strip(item.text), left |-> item.left]
         IN  IF IsBlank(item.text) THEN GroupFrom(ocr_results, k + 1, lines)
             ELSE GroupFrom(ocr_results, k + 1,
                     [key \in DOMAIN lines \cup {line_key} |->
                         IF key = line_key THEN Append(old, word) ELSE lines[key]])

GroupLines(ocr_results) == GroupFrom(ocr_results, 1, <<>>)

\* sorted(...) of a set of integers
RECURSIVE SortSet(_)
SortSet(S) ==
    IF S = {} THEN <<>>
    ELSE LET m == CHOOSE x \in S : \A y \in S : x <= y
         IN  <<m>> \o SortSet(S \ {m})

\* the lines sorted bottom to top
SortedLinesDesc(lines) ==
    LET keys == SortSet(DOMAIN lines)
    IN  [n \in 1..Len(keys) |->
            <<keys[Len(keys) + 1 - n], lines[keys[Len(keys) + 1 - n]]>>]

\* line 97: sorted(lines.items()), as the sequence of <<line_key, words>>
SortedLines(lines) ==
    LET keys == SortSet(DOMAIN lines)
    IN  [n \in 1..Len(keys) |-> <<keys[n], lines[keys[n]]>>]

\* the left of every word of a line
LeftsOf(words) == {words[j].left : j \in 1..Len(words)}

\* lines 100-109: sorted(set(all_lefts))
AllLefts(sorted_lines) ==
    SortSet(UNION {LeftsOf(sorted_lines[n][2]) : n \in 1..Len(sorted_lines)})

\* a wrong threshold: the cell tolerance counted into the gap
NewColumnWide(left, last) == left - last > ColumnGap + CellTolerance

\* the gap itself taken as enough
NewColumnAtGap(left, last) == left - last >= ColumnGap

\* line 112: a left opens a new column
NewColumn(left, last) == left - last > ColumnGap

\* lines 110-113: the greedy pass over the sorted lefts
RECURSIVE ColFrom(_, _, _)
ColFrom(all_lefts, k, col_positions) ==
    IF k > Len(all_lefts) THEN col_positions
    ELSE IF NewColumn(all_lefts[k], col_positions[Len(col_positions)])
         THEN ColFrom(all_lefts, k + 1, Append(col_positions, all_lefts[k]))
         ELSE ColFrom(all_lefts, k + 1, col_positions)

ColPositions(all_lefts) == ColFrom(all_lefts, 2, <<all_lefts[1]>>)

\* line 119: sorted(words, key=left), stable: a word goes after the words
\* already placed whose left is not greater
InsertWord(sorted, word) ==
    LET n == Cardinality({j \in 1..Len(sorted) : sorted[j].left <= word.left})
    IN  SubSeq(sorted, 1, n) \o <<word>> \o SubSeq(sorted, n + 1, Len(sorted))

RECURSIVE SortFrom(_, _, _)
SortFrom(words, k, sorted) ==
    IF k > Len(words) THEN sorted
    ELSE SortFrom(words, k + 1, InsertWord(sorted, words[k]))

SortWords(words) == SortFrom(words, 1, <<>>)

\* the tolerance forgotten
InColumnExact(left, col_pos) == left >= col_pos

\* line 125: the word is at or right of the column, less the tolerance
InColumn(left, col_pos) == left >= col_pos - CellTolerance

\* lines 123-126: the last column the word is in, the first when in none
\* (col_idx counts from 1 here, from 0 in the code)
ColIdx(left, col_positions) ==
    LET hits == {i \in 1..Len(col_positions) : InColumn(left, col_positions[i])}
    IN  IF hits = {} THEN 1 ELSE CHOOSE i \in hits : \A j \in hits : j <= i

\* the blank between the texts left out
AddToCellNoSpace(cell, text) == cell \o text

\* lines 128-131: the text joins the cell
AddToCell(cell, text) == IF cell # <<>> THEN cell \o <<SPACE>> \o text ELSE text

\* lines 120-131: one row from the sorted words of a line
RECURSIVE RowFrom(_, _, _, _)
RowFrom(words, k, col_positions, row) ==
    IF k > Len(words) THEN row
    ELSE LET col_idx == ColIdx(words[k].left, col_positions)
         IN  RowFrom(words, k + 1, col_positions,
                 IF col_idx <= Len(row)
                 THEN [row EXCEPT ![col_idx] = AddToCell(row[col_idx], words[k].text)]
                 ELSE row)

BuildRow(words, col_positions) ==
    RowFrom(SortWords(words), 1, col_positions,
            [i \in 1..Len(col_positions) |-> <<>>])

\* line 132: any(cell.strip() for cell in row)
RowHasText(row) == \E i \in 1..Len(row) : Strip(row[i]) # <<>>

\* lines 116-133: the rows of the lines, top to bottom
RECURSIVE TableFrom(_, _, _, _)
TableFrom(sorted_lines, k, col_positions, table_data) ==
    IF k > Len(sorted_lines) THEN table_data
    ELSE LET row == BuildRow(sorted_lines[k][2], col_positions)
         IN  TableFrom(sorted_lines, k + 1, col_positions,
                 IF RowHasText(row) THEN Append(table_data, row) ELSE table_data)

TableData(sorted_lines) ==
    TableFrom(sorted_lines, 1, ColPositions(AllLefts(sorted_lines)), <<>>)

\* a single row accepted
AcceptedOneRow(table_data) == Len(table_data) > 0

\* line 135: header and at least one data row
Accepted(table_data) == Len(table_data) > 1

\* lines 57-145: the accepted table_data as <<table_data>>, None as <<>>
Reconstruct(ocr_results) ==
    IF ocr_results = <<>> THEN <<>>
    ELSE LET lines == GroupLines(ocr_results)
         IN  IF DOMAIN lines = {} THEN <<>>
             ELSE LET table_data == TableData(SortedLines(lines))
                  IN  IF Accepted(table_data) THEN <<table_data>> ELSE <<>>

-----------------------------------------------------------------------------
(* The reconstruction on its own: a page of regions is drawn, then         *)
(* reconstructed.                                                          *)

\* the regions a page is drawn from: text at any left on two lines 30
\* apart, text 6 above the second line and yet in the band of the first,
\* and blank regions, which line 75 skips before their box is read
Texts == {<<"a">>, <<SPACE, "b">>}
Lefts == {0, 10, 50, 90}
Tops == {0, 30}
JitterRegions == {[text |-> <<"a">>, left |-> x, top |-> 24] : x \in {0, 90}}
BlankRegions == {[text |-> <<>>, left |-> 0, top |-> 0], [text |-> <<SPACE>>, left |-> 90, top |-> 30]}

Region == [text : Texts, left : Lefts, top : Tops] \cup JitterRegions \cup BlankRegions

\* pages whose regions sit on a lattice: column lefts more than ColumnGap
\* apart, row tops in ascending distinct bands, one region a cell
LatticeLefts == {0, 90, 100, 200}
LatticeTops == {0, 24, 30, 60}
CellTexts == {<<"a">>, <<SPACE, "b">>}

LatticeXs(C) ==
    {xs \in [1..C -> LatticeLefts] :
        \A i \in 1..C - 1 : xs[i + 1] - xs[i] > ColumnGap}

LatticeYs(R) ==
    {ys \in [1..R -> LatticeTops] :
        \A i \in 1..R - 1 : LineKey(ys[i]) < LineKey(ys[i + 1])}

RowMajor(xs, ys, tx) ==
    [n \in 1..Len(xs) * Len(ys) |->
        [text |-> tx[n],
         left |-> xs[((n - 1) % Len(xs)) + 1],
         top |-> ys[((n - 1) \div Len(xs)) + 1]]]

Rotate(s, k) == [n \in 1..Len(s) |-> s[((n - 1 + k) % Len(s)) + 1]]

Reverse(s) == [n \in 1..Len(s) |-> s[Len(s) + 1 - n]]

\* the page of the end-to-end scenario: Name, Age / Alice, 30
ExamplePage ==
    << [text |-> <<"N", "a", "m", "e">>, left |-> 0, top |-> 0],
       [text |-> <<"A", "g", "e">>, left |-> 100, top |-> 0],
       [text |-> <<"A", "l", "i", "c", "e">>, left |-> 0, top |-> 30],
       [text |-> <<"3", "0">>, left |-> 100, top |-> 30] >>

OcrIdle ==
    /\ OCR_AVAILABLE = TRUE
    /\ num_pages = 0
    /\ opc = "idle"
    /\ process_args = <<>>
    /\ cpus = 0
    /\ max_workers = 0
    /\ futures = <<>>
    /\ overtaken = FALSE
    /\ ocr_tables = <<>>

NoResult == [success |-> FALSE, error |-> "", hint |-> "", tables_count |-> 0, ocr_tables |-> 0]

ConvertOff ==
    /\ pc = "off"
    /\ pages = <<>>
    /\ use_ocr = FALSE
    /\ pages_to_process = <<>>
    /\ next_page = 0
    /\ tables = <<>>
    /\ sheets = <<>>
    /\ output_dir = FALSE
    /\ opens = 0
    /\ result = NoResult

ReconInit ==
    /\ regions = <<>>
    /\ grid = <<>>
    /\ rpc = "input"
    /\ OcrIdle
    /\ ConvertOff

\* line 54: the OCR adapter reports one more region of the page
DetectRegion ==
    /\ rpc = "input"
    /\ Len(regions) < MaxRegions
    /\ \E item \in Region : regions' = Append(regions, item)
    /\ UNCHANGED <<grid, rpc, ocrVars, convVars>>

\* line 54: the OCR adapter reports the regions of a lattice page of two
\* columns or more, in some order
DetectLattice ==
    /\ rpc = "input"
    /\ regions = <<>>
    /\ \E R \in 2..MaxRows, C \in 2..MaxCols :
        \E xs \in LatticeXs(C), ys \in LatticeYs(R), tx \in [1..R * C -> CellTexts] :
            \E k \in 0..R * C - 1, rev \in BOOLEAN :
                LET page == Rotate(RowMajor(xs, ys, tx), k)
                IN  regions' = IF rev THEN Reverse(page) ELSE page
    /\ UNCHANGED <<grid, rpc, ocrVars, convVars>>

\* line 54: the OCR adapter reports the page of the end-to-end scenario
DetectExample ==
    /\ rpc = "input"
    /\ regions = <<>>
    /\ regions' = ExamplePage
    /\ UNCHANGED <<grid, rpc, ocrVars, convVars>>

RunReconstruct ==
    /\ rpc = "input"
    /\ grid' = Reconstruct(regions)
    /\ rpc' = "done"
    /\ UNCHANGED <<regions, ocrVars, convVars>>

ReconNext == DetectRegion \/ DetectLattice \/ DetectExample \/ RunReconstruct

ReconSpec == ReconInit /\ [][ReconNext]_vars

-----------------------------------------------------------------------------
(* The page OCR worker and the parallel OCR scheduler                      *)
(* (process_single_page_ocr, extract_tables_with_ocr).                     *)

\* what the OCR adapter may report for a page: nothing, one line, a table
OneLinePage == SubSeq(ExamplePage, 1, 2)
OcrPages == {<<>>, OneLinePage, ExamplePage}

Returned(value) == [raised |-> FALSE, caught |-> FALSE, value |-> value]

\* the steps of the worker that may raise: the OCR engine and the document
\* are set up (lines 33-35), the page is rendered (lines 40-51), OCR runs
\* (line 54), the table is reconstructed (lines 57-145)
Steps == {"open", "render", "ocr", "reconstruct"}

\* the range check dropped: the page is processed whatever its index
WorkerBodyNoRange(page_num, doc_len, raise_at, ocr_results) ==
    IF raise_at \in Steps THEN [raised |-> TRUE, caught |-> FALSE, value |-> <<>>]
    ELSE LET table == Reconstruct(ocr_results)
         IN  IF table = <<>> THEN Returned(<<>>)
             ELSE Returned(<<[page |-> page_num + 1, data |-> table[1], source |-> "ocr"]>>)

\* lines 32-145, the body of the try: raises when the step raise_at raises
\* ("none": no step does), else returns None or the table of the page; the
\* range check of lines 36-38 comes after the set-up and before the rendering
WorkerBody(page_num, doc_len, raise_at, ocr_results) ==
    IF raise_at = "open" THEN [raised |-> TRUE, caught |-> FALSE, value |-> <<>>]
    ELSE IF page_num < 0 \/ page_num >= doc_len THEN Returned(<<>>)
    ELSE IF raise_at \in Steps THEN [raised |-> TRUE, caught |-> FALSE, value |-> <<>>]
    ELSE LET table == Reconstruct(ocr_results)
         IN  IF table = <<>> THEN Returned(<<>>)
             ELSE Returned(<<[page |-> page_num + 1, data |-> table[1], source |-> "ocr"]>>)

\* the worker without its handler
ProcessSinglePageOcrNoCatch(page_num, doc_len, raise_at, ocr_results) ==
    WorkerBody(page_num, doc_len, raise_at, ocr_results)

\* lines 24-149: every exception of the body becomes None
ProcessSinglePageOcr(page_num, doc_len, raise_at, ocr_results) ==
    LET body == WorkerBody(page_num, doc_len, raise_at, ocr_results)
    IN  IF body.raised THEN [raised |-> FALSE, caught |-> TRUE, value |-> <<>>]
        ELSE body

Min(a, b) == IF a <= b THEN a ELSE b

\* the pool as large as the machine
MaxWorkersUncapped(cpu_count) == cpu_count

\* a core left free
MaxWorkersLeaveOne(cpu_count) == Min(cpu_count - 1, WorkerCap)

\* line 175
MaxWorkers(cpu_count) == Min(cpu_count, WorkerCap)

Running == {k \in 1..Len(futures) : futures[k].st = "running"}
Queued == {k \in 1..Len(futures) : futures[k].st = "queued"}

\* the batch given up when a page has no result
FilterAllOrNothing(results) ==
    IF \E k \in 1..Len(results) : results[k] = <<>> THEN <<>>
    ELSE [k \in 1..Len(results) |-> results[k][1]]

\* the results taken last to first
RECURSIVE FilterReversed(_)
FilterReversed(results) ==
    IF results = <<>> THEN <<>>
    ELSE IF Head(results) # <<>>
         THEN FilterReversed(Tail(results)) \o <<Head(results)[1]>>
         ELSE FilterReversed(Tail(results))

\* lines 181-183: the results that are not None, in the order of results
RECURSIVE FilterResults(_)
FilterResults(results) ==
    IF results = <<>> THEN <<>>
    ELSE IF Head(results) # <<>>
         THEN <<Head(results)[1]>> \o FilterResults(Tail(results))
         ELSE FilterResults(Tail(results))

\* the flag of line 165 not looked at
OcrEntryNoCheck ==
    /\ opc = "called"
    /\ \E cpu_count \in 1..MaxCpu : cpus' = cpu_count /\ max_workers' = MaxWorkers(cpu_count)
    /\ futures' = [k \in 1..Len(process_args) |->
                      [st |-> "queued", res |-> <<>>, exc |-> FALSE, caught |-> FALSE]]
    /\ opc' = "running"
    /\ UNCHANGED <<reconVars, convVars, OCR_AVAILABLE, num_pages, process_args, overtaken, ocr_tables>>

\* lines 165-177: without OCR the call returns []; else the arguments are
\* prepared, the pool is created and every task is submitted
OcrEntry ==
    /\ opc = "called"
    /\ IF ~OCR_AVAILABLE
       THEN /\ opc' = "returned"
            /\ ocr_tables' = <<>>
            /\ UNCHANGED <<cpus, max_workers, futures>>
       ELSE /\ \E cpu_count \in 1..MaxCpu : cpus' = cpu_count /\ max_workers' = MaxWorkers(cpu_count)
            /\ futures' = [k \in 1..Len(process_args) |->
                              [st |-> "queued", res |-> <<>>, exc |-> FALSE, caught |-> FALSE]]
            /\ opc' = "running"
            /\ UNCHANGED ocr_tables
    /\ UNCHANGED <<reconVars, convVars, OCR_AVAILABLE, num_pages, process_args, overtaken>>

\* line 178: a free worker of the pool takes the next task, in the order submitted
WorkerStart ==
    /\ opc = "running"
    /\ Queued # {}
    /\ Cardinality(Running) < max_workers
    /\ LET k == CHOOSE k \in Queued : \A j \in Queued : k <= j
       IN  futures' = [futures EXCEPT ![k].st = "running"]
    /\ UNCHANGED <<reconVars, convVars, OCR_AVAILABLE, num_pages, opc, process_args, cpus, max_workers,
                   overtaken, ocr_tables>>

\* line 178: a worker runs process_single_page_ocr on its task to the end
WorkerFinish ==
    /\ opc = "running"
    /\ \E k \in Running, raise_at \in Steps \cup {"none"}, ocr_results \in OcrPages :
        LET r == ProcessSinglePageOcr(process_args[k], num_pages, raise_at, ocr_results)
        IN  /\ futures' = [futures EXCEPT ![k] =
                    [st |-> "done", res |-> r.value, exc |-> r.raised, caught |-> r.caught]]
            /\ overtaken' = (overtaken \/ \E j \in 1..k - 1 : futures[j].st # "done")
    /\ UNCHANGED <<reconVars, convVars, OCR_AVAILABLE, num_pages, opc, process_args, cpus, max_workers, ocr_tables>>

\* lines 178-185: list(executor.map(...)) has every result, in the order of
\* process_args, or raises what a task raised; then the None are filtered out
Collect ==
    /\ opc = "running"
    /\ \A k \in 1..Len(futures) : futures[k].st = "done"
    /\ IF \E k \in 1..Len(futures) : futures[k].exc
       THEN /\ opc' = "raised"
            /\ UNCHANGED ocr_tables
       ELSE /\ opc' = "returned"
            /\ ocr_tables' = FilterResults([k \in 1..Len(futures) |-> futures[k].res])
    /\ UNCHANGED <<reconVars, convVars, OCR_AVAILABLE, num_pages, process_args, cpus, max_workers,
                   futures, overtaken>>

OcrNext == OcrEntry \/ WorkerStart \/ WorkerFinish \/ Collect

\* extract_tables_with_ocr called on its own, with any short list of page
\* indices or every page of the document
Range0(n) == [k \in 1..n |-> k - 1]

RECURSIVE SeqsUpTo(_, _)
SeqsUpTo(S, n) ==
    IF n = 0 THEN {<<>>}
    ELSE LET shorter == SeqsUpTo(S, n - 1)
         IN  shorter \cup {Append(s, x) : s \in {t \in shorter : Len(t) = n - 1}, x \in S}

OcrInit ==
    /\ regions = <<>> /\ grid = <<>> /\ rpc = "off"
    /\ OCR_AVAILABLE \in BOOLEAN
    /\ num_pages \in 1..MaxPages
    /\ opc = "called"
    /\ process_args \in {Range0(n) : n \in 0..MaxBatch} \cup SeqsUpTo(-1..MaxPages, 2)
    /\ cpus = 0
    /\ max_workers = 0
    /\ futures = <<>>
    /\ overtaken = FALSE
    /\ ocr_tables = <<>>
    /\ ConvertOff

OcrSpec == OcrInit /\ [][OcrNext]_vars

\* the pool goes on: a free worker takes a waiting task, a running worker
\* ends its page, the call goes on when every task is done
OcrFairSpec == OcrSpec /\ WF_vars(OcrNext)

-----------------------------------------------------------------------------
(* The orchestration (convert).  The document may fail to open (line 221,  *)
(* line 261) and a malformed range raises ValueError; os.makedirs and the  *)
(* spreadsheet writer are taken to succeed.                                *)

Digits == <<"0", "1", "2", "3", "4", "5", "6", "7", "8", "9">>

IsDigit(c) == \E d \in 1..10 : Digits[d] = c

DigitVal(c) == (CHOOSE d \in 1..10 : Digits[d] = c) - 1

RECURSIVE DecVal(_)
DecVal(s) ==
    IF s = <<>> THEN 0
    ELSE 10 * DecVal(SubSeq(s, 1, Len(s) - 1)) + DigitVal(s[Len(s)])

\* int(s): the blanks around s are dropped; ValueError (ok FALSE) unless
\* decimal digits remain
IntOf(s) ==
    LET t == Strip(s)
    IN  IF t # <<>> /\ \A i \in 1..Len(t) : IsDigit(t[i])
        THEN [ok |-> TRUE, val |-> DecVal(t)]
        ELSE [ok |-> FALSE, val |-> 0]

\* list(range(a, b))
RangeList(a, b) == [k \in 1..(b - a) |-> a + k - 1]

Contains(s, c) == \E i \in 1..Len(s) : s[i] = c

\* lines 229-237 for one part of the selector: parsed holds the list so
\* far and whether a ValueError left the loop
ParsePart(parsed, raw) ==
    LET part == Strip(raw)
    IN  IF parsed.raised THEN parsed
        ELSE IF Contains(part, "-")
        THEN LET pieces == Split(part, "-")
             IN  IF Len(pieces) # 2 THEN [parsed EXCEPT !.raised = TRUE]
                 ELSE LET start == IntOf(pieces[1])
                          end == IntOf(pieces[2])
                      IN  IF start.ok /\ end.ok
                          THEN [parsed EXCEPT !.list = @ \o RangeList(start.val - 1, end.val)]
                          ELSE [parsed EXCEPT !.raised = TRUE]
        ELSE LET n == IntOf(part)
             IN  IF n.ok THEN [parsed EXCEPT !.list = Append(@, n.val - 1)]
                 ELSE parsed

RECURSIVE ParseFrom(_, _, _)
ParseFrom(parts, k, parsed) ==
    IF k > Len(parts) THEN parsed
    ELSE ParseFrom(parts, k + 1, ParsePart(parsed, parts[k]))

ALL == <<"a", "l", "l">>

\* lines 223-237: the page indices of the selector, for a document of doc_len pages
ParsePages(selector, doc_len) ==
    IF selector = ALL THEN [raised |-> FALSE, list |-> Range0(doc_len)]
    ELSE ParseFrom(Split(selector, ","), 1, [raised |-> FALSE, list |-> <<>>])

\* lines 246-255: the tables of one page that are not empty
RECURSIVE PageTables(_, _)
PageTables(page_num, page_tables) ==
    IF page_tables = <<>> THEN <<>>
    ELSE LET table == Head(page_tables)
             rest == PageTables(page_num, Tail(page_tables))
         IN  IF table # <<>>
             THEN <<[page |-> page_num + 1, data |-> table, source |-> "pdfplumber"]>> \o rest
             ELSE rest

Failure(error, hint) ==
    [success |-> FALSE, error |-> error, hint |-> hint, tables_count |-> 0, ocr_tables |-> 0]

\* the selectors of the model: "all" and the short strings that name
\* MaxBatch pages at most; and what extract_tables of pdfplumber may give
SelChars == {"0", "1", "2", ",", "-", " ", "x"}
Selectors ==
    {ALL} \cup {s \in SeqsUpTo(SelChars, MaxSelLen) : Len(ParsePages(s, 0).list) <= MaxBatch}
PlumberTables == {<<>>, << <<<<"h">>>>, <<<<"v">>>> >>}

ConvertInit ==
    /\ regions = <<>> /\ grid = <<>> /\ rpc = "off"
    /\ OCR_AVAILABLE \in BOOLEAN
    /\ num_pages = 0
    /\ opc = "idle"
    /\ process_args = <<>>
    /\ cpus = 0
    /\ max_workers = 0
    /\ futures = <<>>
    /\ overtaken = FALSE
    /\ ocr_tables = <<>>
    /\ pc = "start"
    /\ pages \in Selectors
    /\ use_ocr \in BOOLEAN
    /\ pages_to_process = <<>>
    /\ next_page = 0
    /\ tables = <<>>
    /\ sheets = <<>>
    /\ output_dir = FALSE
    /\ opens = 0
    /\ result = NoResult

\* the output directory made before the file is looked up
CheckExistsDirFirst ==
    /\ pc = "start"
    /\ \E exists \in BOOLEAN, makes_dir \in BOOLEAN :
        /\ output_dir' = makes_dir
        /\ IF exists THEN pc' = "open" /\ UNCHANGED result
           ELSE pc' = "done" /\ result' = Failure("PDF file not found", "")
    /\ UNCHANGED <<reconVars, ocrVars, pages, use_ocr, pages_to_process, next_page, tables, sheets, opens>>

\* lines 202-216: the file is looked up; when it is there, the output
\* directory is made if one is named and missing (makes_dir)
CheckExists ==
    /\ pc = "start"
    /\ \E exists \in BOOLEAN, makes_dir \in BOOLEAN :
        IF exists THEN pc' = "open" /\ output_dir' = makes_dir /\ UNCHANGED result
        ELSE pc' = "done" /\ result' = Failure("PDF file not found", "") /\ UNCHANGED output_dir
    /\ UNCHANGED <<reconVars, ocrVars, pages, use_ocr, pages_to_process, next_page, tables, sheets, opens>>

\* line 221: pdfplumber opens the document, or raises (lines 305-309)
OpenPdf ==
    /\ pc = "open"
    /\ opens' = opens + 1
    /\ \E opened \in BOOLEAN, doc_len \in 1..MaxPages :
        IF opened
        THEN pc' = "parse" /\ num_pages' = doc_len /\ UNCHANGED result
        ELSE pc' = "done" /\ result' = Failure("Conversion failed", "") /\ UNCHANGED num_pages
    /\ UNCHANGED <<reconVars, OCR_AVAILABLE, opc, process_args, cpus, max_workers, futures, overtaken, ocr_tables,
                   pages, use_ocr, pages_to_process, next_page, tables, sheets, output_dir>>

\* lines 223-237: the selector is resolved; a ValueError of a range leaves
\* convert through lines 305-309
ParseSelector ==
    /\ pc = "parse"
    /\ LET parsed == ParsePages(pages, num_pages)
       IN  IF parsed.raised
           THEN pc' = "done" /\ result' = Failure("Conversion failed", "")
                /\ UNCHANGED <<pages_to_process, next_page>>
           ELSE pc' = "structural" /\ pages_to_process' = parsed.list /\ next_page' = 1
                /\ UNCHANGED result
    /\ UNCHANGED <<reconVars, ocrVars, pages, use_ocr, tables, sheets, output_dir, opens>>

\* lines 239-255: one round of the loop over pages_to_process
StructuralPage ==
    /\ pc = "structural"
    /\ next_page <= Len(pages_to_process)
    /\ LET page_num == pages_to_process[next_page]
       IN  IF page_num < 0 \/ page_num >= num_pages THEN UNCHANGED tables
           ELSE \E page_tables \in SeqsUpTo(PlumberTables, MaxPageTables) :
                    tables' = tables \o PageTables(page_num, page_tables)
    /\ next_page' = next_page + 1
    /\ UNCHANGED <<reconVars, ocrVars, pc, pages, use_ocr, pages_to_process, sheets, output_dir, opens, result>>

\* OCR tried whatever the structural path found
NeedsOcrAlways(found, wanted, available) == wanted /\ available

\* line 258: OCR is tried when no table was found, the request asks for it
\* and it is available
NeedsOcr(found, wanted, available) == found = <<>> /\ wanted /\ available

\* line 258, once the loop of lines 239-255 is over
DecideOcr ==
    /\ pc = "structural"
    /\ next_page > Len(pages_to_process)
    /\ pc' = IF NeedsOcr(tables, use_ocr, OCR_AVAILABLE) THEN "reopen" ELSE "check"
    /\ UNCHANGED <<reconVars, ocrVars, pages, use_ocr, pages_to_process, next_page, tables, sheets,
                   output_dir, opens, result>>

\* lines 259-268: the document is opened again and extract_tables_with_ocr
\* is called with pages_to_process; if the document does not open, lines
\* 269-272 go on with the empty tables
OcrReopen ==
    /\ pc = "reopen"
    /\ opens' = opens + 1
    /\ \E opened \in BOOLEAN :
        IF opened
        THEN /\ pages_to_process' = IF pages = ALL THEN Range0(num_pages) ELSE pages_to_process
             /\ process_args' = pages_to_process'
             /\ opc' = "called"
             /\ pc' = "ocr"
        ELSE /\ pc' = "check"
             /\ UNCHANGED <<pages_to_process, process_args, opc>>
    /\ UNCHANGED <<reconVars, OCR_AVAILABLE, num_pages, cpus, max_workers, futures, overtaken, ocr_tables,
                   pages, use_ocr, next_page, tables, sheets, output_dir, result>>

\* lines 268-272: the call is over: its list becomes tables, or it raised
\* and tables stay empty
OcrReturn ==
    /\ pc = "ocr"
    /\ opc \in {"returned", "raised"}
    /\ tables' = IF opc = "returned" THEN ocr_tables ELSE tables
    /\ pc' = "check"
    /\ UNCHANGED <<reconVars, ocrVars, pages, use_ocr, pages_to_process, next_page, sheets,
                   output_dir, opens, result>>

\* lines 276-279: what the message adds to "No tables found in the PDF"
NoTablesHint ==
    IF ~OCR_AVAILABLE /\ use_ocr THEN "OCR is not available"
    ELSE IF ~use_ocr THEN "Try enabling OCR"
    ELSE ""

\* lines 274-283
CheckTables ==
    /\ pc = "check"
    /\ IF tables = <<>>
       THEN pc' = "done" /\ result' = Failure("No tables found in the PDF", NoTablesHint)
       ELSE pc' = "write" /\ UNCHANGED result
    /\ UNCHANGED <<reconVars, ocrVars, pages, use_ocr, pages_to_process, next_page, tables, sheets,
                   output_dir, opens>>

\* lines 286-303: a sheet Page<page>_Table<i> per table, then the success dict
WriteExcel ==
    /\ pc = "write"
    /\ sheets' = [i \in 1..Len(tables) |-> <<tables[i].page, i>>]
    /\ result' = [success |-> TRUE, error |-> "", hint |-> "",
                  tables_count |-> Len(tables),
                  ocr_tables |-> Cardinality({i \in 1..Len(tables) : tables[i].source = "ocr"})]
    /\ pc' = "done"
    /\ UNCHANGED <<reconVars, ocrVars, pages, use_ocr, pages_to_process, next_page, tables,
                   output_dir, opens>>

Next ==
    \/ CheckExists \/ OpenPdf \/ ParseSelector \/ StructuralPage \/ DecideOcr
    \/ OcrReopen \/ OcrEntry \/ WorkerStart \/ WorkerFinish \/ Collect \/ OcrReturn
    \/ CheckTables \/ WriteExcel

Init == ConvertInit

Spec == Init /\ [][Next]_vars

\* the module used from either of its entries: convert, or
\* extract_tables_with_ocr called by itself
ModuleInit == ConvertInit \/ OcrInit

ModuleSpec == ModuleInit /\ [][Next]_vars

-----------------------------------------------------------------------------
(* Vocabulary of the claims about the reconstruction. *)

\* the regions with text, by their place in the page
TextRegions(rs) == {k \in 1..Len(rs) : ~IsBlank(rs[k].text)}

LeftSet(rs) == {rs[k].left : k \in TextRegions(rs)}

BandSet(rs) == {LineKey(rs[k].top) : k \in TextRegions(rs)}

\* the column boundaries the reconstruction computes for the page
Boundaries(rs) == ColPositions(AllLefts(SortedLines(GroupLines(rs))))

\* the row of the grid that holds the line of a band
RowOf(band, rs) == 1 + Cardinality({b \in BandSet(rs) : b < band})

\* the boundary a left was merged into by the greedy pass: the last one not right of it
MergedInto(left, cols) ==
    CHOOSE i \in 1..Len(cols) :
        /\ cols[i] <= left
        /\ \A j \in 1..Len(cols) : cols[j] <= left => j <= i

\* the texts a cell was joined from
Tokens(cell) ==
    LET pieces == Split(cell, SPACE)
    IN  {pieces[i] : i \in 1..Len(pieces)}

\* the page has text on two lines at least, at exactly two lefts, gap apart or more
TwoColumnPage(rs, gap) ==
    /\ Cardinality(BandSet(rs)) >= 2
    /\ \E x1, x2 \in LeftSet(rs) : LeftSet(rs) = {x1, x2} /\ x2 - x1 >= gap

TwoColumnGrid == grid # <<>> /\ \A r \in 1..Len(grid[1]) : Len(grid[1][r]) = 2

\* C6 as stated: two columns of lefts at least 80 apart, exactly 80 included,
\* give a grid of exactly 2 columns.
C6_AsStated ==
    (rpc = "done" /\ TwoColumnPage(regions, ColumnGap)) => TwoColumnGrid

\* C6, amended: on a page with text on at least two lines whose lefts are
\* two values more than 80 apart, the grid has exactly 2 columns.
C6_TwoColumns ==
    (rpc = "done" /\ TwoColumnPage(regions, ColumnGap + 1)) => TwoColumnGrid

C6_Witness ==
    /\ rpc = "done"
    /\ TwoColumnPage(regions, ColumnGap + 1)
    /\ TwoColumnGrid

\* every left within less than 80 of the boundary before it is no boundary
NoSplitWithinGap(rs) ==
    LET cols == Boundaries(rs)
    IN  \A x \in LeftSet(rs) :
            LET m == MergedInto(x, cols)
            IN  (cols[m] < x /\ x - cols[m] < ColumnGap)
                    => \A i \in 1..Len(cols) : cols[i] # x

\* the column the text of a region lands in: the one it was merged into,
\* or the next when the region is within the tolerance left of the next boundary
LandsIn(left, cols) ==
    LET m == MergedInto(left, cols)
    IN  IF m < Len(cols) /\ left >= cols[m + 1] - CellTolerance THEN m + 1 ELSE m

LandedTexts(rs, cols, band, c) ==
    {Strip(rs[l].text) : l \in {l \in TextRegions(rs) :
        LineKey(rs[l].top) = band /\ LandsIn(rs[l].left, cols) = c}}

C8_AtLeastTwoRows ==
    rpc = "done" =>
        /\ grid # <<>> => Len(grid[1]) >= 2
        /\ Cardinality(BandSet(regions)) <= 1 => grid = <<>>
        /\ Cardinality(BandSet(regions)) >= 2 =>
            grid # <<>> /\ Len(grid[1]) = Cardinality(BandSet(regions))

\* a page with text on one line only, rejected
C8_Witness ==
    /\ rpc = "done"
    /\ Cardinality(TextRegions(regions)) >= 2
    /\ Cardinality(BandSet(regions)) = 1
    /\ grid = <<>>

\* the page is a clean lattice: every region has text, the lefts are more
\* than 80 apart, a row has one top, rows are in distinct bands, and every
\* (row, column) holds exactly one region
IsLattice(rs) ==
    /\ TextRegions(rs) = 1..Len(rs)
    /\ Cardinality(BandSet(rs)) >= 2
    /\ \A x, y \in LeftSet(rs) : x < y => y - x > ColumnGap
    /\ \A k, l \in 1..Len(rs) :
        LineKey(rs[k].top) = LineKey(rs[l].top) => rs[k].top = rs[l].top
    /\ \A x \in LeftSet(rs), b \in BandSet(rs) :
        Cardinality({k \in 1..Len(rs) : rs[k].left = x /\ LineKey(rs[k].top) = b}) = 1

\* the grid of a lattice: rows top to bottom, columns left to right
LatticeGrid(rs) ==
    LET xs == SortSet(LeftSet(rs))
        bands == SortSet(BandSet(rs))
    IN  [r \in 1..Len(bands) |->
            [c \in 1..Len(xs) |->
                LET k == CHOOSE k \in 1..Len(rs) :
                            rs[k].left = xs[c] /\ LineKey(rs[k].top) = bands[r]
                IN  Strip(rs[k].text)]]

ExampleGrid ==
    << << <<"N", "a", "m", "e">>, <<"A", "g", "e">> >>,
       << <<"A", "l", "i", "c", "e">>, <<"3", "0">> >> >>

-----------------------------------------------------------------------------
(* Claims about the scheduler. *)

Results == [k \in 1..Len(futures) |-> futures[k].res]

WithResult == {k \in 1..Len(futures) : futures[k].res # <<>>}

\* C4: when the worker of some page fails, extract_tables_with_ocr does not
\* raise and returns every result of the workers that succeeded: as many
\* tables as there are results, each result among them, N - 1 or fewer
\* when a worker failed.
C4_PartialFailure ==
    /\ opc # "raised"
    /\ (opc = "returned" /\ OCR_AVAILABLE) =>
        /\ Len(futures) = Len(process_args)
        /\ Len(ocr_tables) = Cardinality(WithResult)
        /\ \A k \in WithResult : \E i \in 1..Len(ocr_tables) : ocr_tables[i] = futures[k].res[1]
        /\ \A i \in 1..Len(ocr_tables) : \E k \in WithResult : ocr_tables[i] = futures[k].res[1]
        /\ (\E k \in 1..Len(futures) : futures[k].caught) =>
            Len(ocr_tables) <= Len(process_args) - 1

\* a batch of three where one worker failed and two tables came back
C4_Witness ==
    /\ opc = "returned"
    /\ Len(process_args) = 3
    /\ \E k \in 1..Len(futures) : futures[k].caught
    /\ Len(ocr_tables) = 2

AllTasksDone ==
    /\ OCR_AVAILABLE => Len(futures) = Len(process_args)
    /\ \A k \in 1..Len(futures) : futures[k].st = "done"

\* C5: under fair scheduling of the pool every call of
\* extract_tables_with_ocr returns, with every submitted page taken by a
\* worker and completed, also when workers fail.
C5_Terminates == <>(opc = "returned" /\ AllTasksDone)

\* a call that returned after a worker failed
C5_Witness ==
    /\ opc = "returned"
    /\ Len(futures) >= 2
    /\ AllTasksDone
    /\ \E k \in 1..Len(futures) : futures[k].caught

-----------------------------------------------------------------------------
(* Claims about the orchestration. *)

Sources == {tables[i].source : i \in 1..Len(tables)}

StructuralDone == pc \notin {"start", "open", "parse"} /\ next_page > Len(pages_to_process)

\* C1: extract_tables_with_ocr is invoked only after the structural path
\* ran over the whole page set and found no table, and only for a request
\* that opted into OCR; once a structural table is found no worker and no
\* OCR call happens; OCR runs over the page set the structural path used.
C1_OcrOnlyAsFallback ==
    /\ opc # "idle" =>
        /\ use_ocr
        /\ StructuralDone
        /\ "pdfplumber" \notin Sources
        /\ pc \in {"reopen", "ocr"} => tables = <<>>
        /\ process_args = pages_to_process
    /\ "pdfplumber" \in Sources =>
        /\ opc = "idle"
        /\ futures = <<>>

\* workers at work on a batch of two pages or more, after a structural
\* path that found nothing
C1_Witness ==
    /\ opc = "running"
    /\ Running # {}
    /\ Len(process_args) >= 2
    /\ use_ocr
    /\ tables = <<>>

\* C2: the tables of a request all carry the same source; tables of OCR
\* are taken only when the structural path left the list empty.
C2_OneSource ==
    /\ [](Cardinality(Sources) <= 1)
    /\ [][("ocr" \in {tables'[i].source : i \in 1..Len(tables')}) => tables = <<>> \/ tables' = tables]_vars

\* a finished request with two tables or more, all of OCR
C2_Witness ==
    /\ pc = "done"
    /\ result.success
    /\ Len(tables) >= 2
    /\ Sources = {"ocr"}

NoTablesFailure == ~result.success /\ result.error = "No tables found in the PDF"

C10_Distinct ==
    /\ \A i, j \in 1..Len(pages_to_process) :
        i # j => pages_to_process[i] # pages_to_process[j]
    /\ \A i, j \in 1..Len(process_args) :
        i # j => process_args[i] # process_args[j]

\* the page indices one token of a selector names when it is well formed
\* (a number, or two numbers around one dash), none otherwise
TokenPages(raw) ==
    LET part == Strip(raw)
        pieces == Split(part, "-")
    IN  IF Contains(part, "-")
        THEN IF Len(pieces) = 2 /\ IntOf(pieces[1]).ok /\ IntOf(pieces[2]).ok
             THEN RangeList(IntOf(pieces[1]).val - 1, IntOf(pieces[2]).val)
             ELSE <<>>
        ELSE IF IntOf(part).ok THEN <<IntOf(part).val - 1>> ELSE <<>>

RECURSIVE ValidPagesFrom(_, _)
ValidPagesFrom(parts, k) ==
    IF k > Len(parts) THEN <<>>
    ELSE TokenPages(parts[k]) \o ValidPagesFrom(parts, k + 1)

\* the pages the well-formed tokens of a selector name, in their order
ValidPages(selector) == ValidPagesFrom(Split(selector, ","), 1)

\* a token of the selector that is not well formed
Malformed(raw) ==
    LET part == Strip(raw)
        pieces == Split(part, "-")
    IN  IF Contains(part, "-")
        THEN Len(pieces) # 2 \/ ~IntOf(pieces[1]).ok \/ ~IntOf(pieces[2]).ok
        ELSE ~IntOf(part).ok

HasMalformed(selector) ==
    \E k \in 1..Len(Split(selector, ",")) : Malformed(Split(selector, ",")[k])

Parsed == pc \notin {"start", "open", "parse"} /\ num_pages > 0

\* C11 as stated: for a selector with a malformed token (a single token
\* that is no number, or a malformed range) convert goes on with the pages
\* the valid tokens name, and the request is not failed for the token.
C11_InvalidIgnored ==
    (Parsed /\ pages # ALL /\ HasMalformed(pages)) =>
        /\ result.error # "Conversion failed"
        /\ pages_to_process = ValidPages(pages)

\* the part of C11 the code keeps: single tokens that are no number are
\* dropped and the request goes on with the other tokens
C11_SingleIgnored ==
    (Parsed /\ pages # ALL /\ ~Contains(pages, "-")) =>
        /\ result.error # "Conversion failed"
        /\ pages_to_process = ValidPages(pages)

\* C12: with OCR unavailable extract_tables_with_ocr returns the empty list
\* at once: no pool is created and no page is attempted; a request that
\* asked for OCR then ends as any request without tables does, with the
\* no-tables failure (or with the structural tables), never with an error
\* of its own.
C12_OcrUnavailable ==
    ~OCR_AVAILABLE =>
        /\ opc \in {"idle", "called", "returned"}
        /\ max_workers = 0
        /\ futures = <<>>
        /\ ocr_tables = <<>>
        /\ (pc = "done" /\ StructuralDone) =>
            /\ tables = <<>> => NoTablesFailure
            /\ tables # <<>> => (result.success /\ Sources = {"pdfplumber"})

\* extract_tables_with_ocr, called for two pages or more without OCR, has returned
C12_Witness ==
    /\ ~OCR_AVAILABLE
    /\ opc = "returned"
    /\ Len(process_args) >= 2
    /\ futures = <<>>
    /\ ocr_tables = <<>>

\* a request for OCR that ended with the no-tables failure for want of OCR
C12_RequestDegrades ==
    /\ ~OCR_AVAILABLE
    /\ use_ocr
    /\ pc = "done"
    /\ NoTablesFailure
    /\ result.hint = "OCR is not available"

InRange(page_num) == page_num >= 0 /\ page_num < num_pages

\* C13: the worker never lets a failure out: a page index out of range
\* gives no result and no error, an exception at any step becomes no result
\* for the page, and a result carries source "ocr" and the page number
\* page index + 1.
C13_WorkerNeverRaises ==
    \A k \in 1..Len(futures) :
        futures[k].st = "done" =>
            /\ ~futures[k].exc
            /\ ~InRange(process_args[k]) => futures[k].res = <<>>
            /\ futures[k].caught => futures[k].res = <<>>
            /\ futures[k].res # <<>> =>
                /\ futures[k].res[1].source = "ocr"
                /\ futures[k].res[1].page = process_args[k] + 1
                /\ InRange(process_args[k])

\* a batch where a page out of range gave nothing without an exception,
\* a step of another page raised, and a third page gave its table
C13_Witness ==
    \E i, j, k \in 1..Len(futures) :
        /\ futures[i].st = "done" /\ ~InRange(process_args[i]) /\ ~futures[i].caught
        /\ futures[j].st = "done" /\ InRange(process_args[j]) /\ futures[j].caught
        /\ futures[k].st = "done" /\ futures[k].res # <<>>
        /\ futures[i].res = <<>> /\ futures[j].res = <<>>

FileNotFound == pc = "done" /\ result.error = "PDF file not found"

\* the document did not open at line 221
OpenFailed == pc = "done" /\ result.error = "Conversion failed" /\ num_pages = 0

\* nothing of the request was worked on: no page extracted, no table, no
\* OCR call, no worker
NoWorkDone ==
    /\ pages_to_process = <<>> /\ next_page = 0 /\ tables = <<>>
    /\ opc = "idle" /\ futures = <<>>

\* C15: a request that ends in a failure returns {success: false, error}
\* with no output written and nothing tried again; for a file that does
\* not exist no output directory is created, no document opened and no
\* page extracted; when the document cannot be opened the spreadsheet
\* writer is never invoked.
C15_FailureWithoutOutput ==
    /\ (pc = "done" /\ ~result.success) =>
        /\ result.error # ""
        /\ sheets = <<>>
    /\ FileNotFound =>
        /\ ~result.success
        /\ ~output_dir
        /\ opens = 0
        /\ NoWorkDone
    /\ OpenFailed =>
        /\ ~result.success
        /\ opens = 1
        /\ sheets = <<>>
        /\ NoWorkDone
    /\ sheets # <<>> => (opens >= 1 /\ num_pages > 0 /\ result.success)

\* the output directory was made, then the document did not open: failure, no sheet
C15_Witness ==
    /\ OpenFailed
    /\ output_dir
    /\ ~result.success
    /\ sheets = <<>>

\* a request for a file that does not exist, ended
C15_NotFound ==
    /\ FileNotFound
    /\ ~output_dir
    /\ opens = 0

-----------------------------------------------------------------------------
(* Claims about cell assignment and column boundaries. *)

\* the last boundary at most left + 40, the first column when there is none
AssignedTo(left, cols) ==
    LET ok == {i \in 1..Len(cols) : cols[i] <= left + 40}
    IN  IF ok = {} THEN 1 ELSE CHOOSE i \in ok : \A j \in ok : j <= i

\* regions (by their place in the page) left to right, regions at the same
\* left in the order of the page
RECURSIVE LeftToRight(_, _)
LeftToRight(rs, S) ==
    IF S = {} THEN <<>>
    ELSE LET m == CHOOSE k \in S : \A j \in S :
                    rs[k].left < rs[j].left \/ (rs[k].left = rs[j].left /\ k <= j)
         IN  <<m>> \o LeftToRight(rs, S \ {m})

\* the texts of the regions, one blank between two
RECURSIVE JoinTexts(_, _)
JoinTexts(rs, order) ==
    IF order = <<>> THEN <<>>
    ELSE IF Len(order) = 1 THEN Strip(rs[order[1]].text)
    ELSE Strip(rs[order[1]].text) \o <<SPACE>> \o JoinTexts(rs, Tail(order))

\* the regions of a band assigned to a column
CellRegions(rs, cols, band, c) ==
    {k \in TextRegions(rs) : LineKey(rs[k].top) = band /\ AssignedTo(rs[k].left, cols) = c}

\* C16: in an accepted grid every row has as many cells as there are column
\* boundaries, and a cell is the texts of the regions of its line that are
\* assigned to its column (the last boundary <= left + 40), left to right,
\* joined by one blank.
C16_CellAssignment ==
    (rpc = "done" /\ grid # <<>>) =>
        LET cols == Boundaries(regions)
        IN  \A band \in BandSet(regions) :
                LET row == grid[1][RowOf(band, regions)]
                IN  /\ Len(row) = Len(cols)
                    /\ \A c \in 1..Len(cols) :
                        row[c] = JoinTexts(regions,
                                    LeftToRight(regions, CellRegions(regions, cols, band, c)))

\* two regions of a line reported right to left, found in one cell left to right
C16_Witness ==
    /\ rpc = "done"
    /\ grid # <<>>
    /\ \E k, l \in TextRegions(regions) :
        LET cols == Boundaries(regions)
            band == LineKey(regions[k].top)
            c == AssignedTo(regions[k].left, cols)
        IN  /\ k < l
            /\ regions[k].left > regions[l].left
            /\ LineKey(regions[l].top) = band
            /\ AssignedTo(regions[l].left, cols) = c
            /\ grid[1][RowOf(band, regions)][c] =
                    Strip(regions[l].text) \o <<SPACE>> \o Strip(regions[k].text)

\* C17: the column boundaries of a page with text are strictly increasing,
\* start at the least left, are lefts of the page, and each one after the
\* first is more than 80 past the one before it.
C17_Boundaries ==
    (rpc = "done" /\ TextRegions(regions) # {}) =>
        LET cols == Boundaries(regions)
        IN  /\ Len(cols) >= 1
            /\ cols[1] \in LeftSet(regions)
            /\ \A x \in LeftSet(regions) : cols[1] <= x
            /\ \A i \in 1..Len(cols) : cols[i] \in LeftSet(regions)
            /\ \A i \in 1..Len(cols) - 1 : cols[i] < cols[i + 1] /\ cols[i + 1] - cols[i] > 80
            /\ grid # <<>> => \A r \in 1..Len(grid[1]) : Len(grid[1][r]) = Len(cols)

\* three lefts, two boundaries: the middle left merged, the last one a
\* boundary though less than 80 from the middle one
C17_Witness ==
    /\ rpc = "done"
    /\ Cardinality(LeftSet(regions)) = 3
    /\ LET cols == Boundaries(regions)
       IN  /\ Len(cols) = 2
           /\ \E x \in LeftSet(regions) :
                cols[1] < x /\ x < cols[2] /\ cols[2] - x < 80

-----------------------------------------------------------------------------
(* Claim about the order of the results. *)

\* the tasks that gave a table, in the order they were submitted
Producers == SortSet(WithResult)

\* C18: whatever the order in which the workers end, the list
\* extract_tables_with_ocr returns holds the tables of the pages in the
\* order of the input list, each table that of its page; the sheets of
\* convert are numbered in that order.
C18_InputOrder ==
    opc = "returned" /\ OCR_AVAILABLE =>
        /\ Len(ocr_tables) = Len(Producers)
        /\ \A i \in 1..Len(ocr_tables) :
            /\ ocr_tables[i] = futures[Producers[i]].res[1]
            /\ ocr_tables[i].page = process_args[Producers[i]] + 1
        /\ (pc = "done" /\ result.success) =>
            /\ Len(sheets) = Len(Producers)
            /\ \A i \in 1..Len(sheets) :
                    sheets[i] = <<process_args[Producers[i]] + 1, i>>

\* a request whose workers ended out of order: the sheets of two pages, in
\* the order of the input list
C18_Witness ==
    /\ pc = "done"
    /\ result.success
    /\ opc = "returned"
    /\ overtaken
    /\ Len(sheets) >= 2
    /\ sheets[1][1] # sheets[2][1]
    /\ \A i \in 1..Len(sheets) : sheets[i] = <<process_args[Producers[i]] + 1, i>>

====
